---- MODULE Spec2Model ----
(***************************************************************************)
(* Template Document Generator API (src/app/main.py): request validation,  *)
(* the two rendering passes, the layout of the final store, the bulk       *)
(* generator and the lookup endpoint, over a filesystem shared by the      *)
(* request handlers.                                                       *)
(*                                                                         *)
(* A text is a sequence of cells.  A cell is a string: one character of a  *)
(* tenant number, or one unit of a template (a literal, a placeholder, a   *)
(* raw block).  Characters outside ASCII are written by name: "SUP2" is    *)
(* U+00B2 SUPERSCRIPT TWO and "AR3" is U+0663 ARABIC-INDIC DIGIT THREE.    *)
(***************************************************************************)
EXTENDS Integers, Sequences, FiniteSets, TLC

VARIABLES
    tn,        \* the tenant_number handed to the validator (sequence of characters)
    tnOut,     \* "pending", "accepted" or "rejected"
    dIn,       \* <<year, month>> handed to get_first_last_day
    dOut,      \* its outcome
    padsYear,  \* whether the platform's strftime pads %Y to four digits
    now,       \* [year, month] of datetime.datetime.now()
    fs,        \* the files: a function from path to content, DOMAIN fs = existing files
    dirs,      \* the directories that exist
    resp,      \* the last response sent
    nreq,      \* the number of requests received
    opened,    \* the final-document keys whose file was opened for writing
    gen,       \* key -> [file, path] returned by the last successful generate_document
    wr,        \* the writers of the write race, one per worker
    tick       \* a counter of the filesystem calls of the write race

vars == <<tn, tnOut, dIn, dOut, padsYear, now, fs, dirs, resp, nreq, opened, gen, wr, tick>>

----------------------------------------------------------------------------
(* Bounds of the model.                                                    *)

\* longest tenant_number tried
MaxTNLen == 8
\* requests received in one behaviour of the store
MaxReq == 2
\* requests of each worker in the write race
MaxRaceReq == 2

----------------------------------------------------------------------------
(* Optional[int]: <<>> is None, <<v>> is the value v.                      *)

None == <<>>

Some(v) == <<v>>

----------------------------------------------------------------------------
(* Characters and strings (Python str).                                    *)

AsciiDigits == {"0", "1", "2", "3", "4", "5", "6", "7", "8", "9"}

\* str.isdigit() of one character: the decimal digits of every script, and the
\* digit characters that are not decimal (superscripts); not letters, not "/".
char_isdigit(c) == c \in AsciiDigits \cup {"AR3", "SUP2"}

\* the characters int() reads as a digit: the decimal digits only
char_isdecimal(c) == c \in AsciiDigits \cup {"AR3"}

DigitValue(c) ==
    CASE c = "0" -> 0 [] c = "1" -> 1 [] c = "2" -> 2 [] c = "3" -> 3 [] c = "4" -> 4
      [] c = "5" -> 5 [] c = "6" -> 6 [] c = "7" -> 7 [] c = "8" -> 8 [] c = "9" -> 9
      [] c = "AR3" -> 3

\* str.isdigit(): every character is a digit and there is at least one
str_isdigit(s) == Len(s) > 0 /\ \A i \in 1..Len(s) : char_isdigit(s[i])

\* int(s) raises ValueError unless every character is a decimal digit
int_raises(s) == Len(s) = 0 \/ \E i \in 1..Len(s) : ~char_isdecimal(s[i])

RECURSIVE int_value(_)
int_value(s) ==
    IF Len(s) = 0 THEN 0
    ELSE 10 * int_value(SubSeq(s, 1, Len(s) - 1)) + DigitValue(s[Len(s)])

\* IntermediateTemplateRequest.validate_tenant_number: TRUE when the value is
\* returned, FALSE when a ValueError leaves the validator (pydantic then rejects
\* the request; the ValueError of int() is one of them).
validate_tenant_number(v) ==
    IF Len(v) # 7 \/ v[3] # "/" THEN FALSE
    ELSE LET month == SubSeq(v, 1, 2)
             year == SubSeq(v, 4, 7)
         IN  IF ~(str_isdigit(month) /\ str_isdigit(year)) THEN FALSE
             ELSE IF int_raises(month) THEN FALSE
             ELSE 1 <= int_value(month) /\ int_value(month) <= 12

----------------------------------------------------------------------------
(* Dates (datetime.date, calendar.monthrange, strftime).                   *)

MINYEAR == 1

MAXYEAR == 9999

Pad2(n) == IF n < 10 THEN "0" \o ToString(n) ELSE ToString(n)

\* f"{month:02d}": at least two digits, the sign kept in front
Format02d(n) == IF n < 0 THEN "-" \o ToString(-n) ELSE Pad2(n)

\* strftime("%Y"): four digits from 1000 on; below, the C library decides
\* whether the year is padded with zeros
strftime_Y(year, pads) ==
    IF year >= 1000 \/ ~pads THEN ToString(year)
    ELSE IF year >= 100 THEN "0" \o ToString(year)
    ELSE IF year >= 10 THEN "00" \o ToString(year)
    ELSE "000" \o ToString(year)

isleap(year) == year % 4 = 0 /\ (year % 100 # 0 \/ year % 400 = 0)

mdays == <<31, 28, 31, 30, 31, 30, 31, 31, 30, 31, 30, 31>>

\* calendar.monthrange(year, month)[1]
monthrange_days(year, month) == mdays[month] + (IF month = 2 /\ isleap(year) THEN 1 ELSE 0)

\* datetime.date(year, month, day) raises ValueError outside these ranges
date_raises(year, month) == year < MINYEAR \/ year > MAXYEAR \/ month < 1 \/ month > 12

strftime_dmY(year, month, day, pads) ==
    Pad2(day) \o "/" \o Pad2(month) \o "/" \o strftime_Y(year, pads)

get_first_last_day(year, month, pads) ==
    IF date_raises(year, month)
    THEN [raised |-> TRUE, first_day |-> "", last_day |-> ""]
    ELSE [raised |-> FALSE,
          first_day |-> strftime_dmY(year, month, 1, pads),
          last_day |-> strftime_dmY(year, month, monthrange_days(year, month), pads)]

----------------------------------------------------------------------------
(* Templates and render_template (jinja2.Template(...).render).            *)

\* {% raw %}c{% endraw %}: renders to c itself
Raw(c) == "{%raw%}" \o c \o "{%endraw%}"

TenantPlaceholders ==
    {"{{tenant_info[0]}}", "{{tenant_number}}", "{{address[0]}}", "{{amount}}"}

DatePlaceholders == {"{{first_day}}", "{{last_day}}", "{{year}}", "{{month}}"}

Placeholders == TenantPlaceholders \cup DatePlaceholders

\* an expression that is opened and never closed: a TemplateSyntaxError
Unclosed == "{{"

RECURSIVE render_cells(_, _)
render_cells(template, context) ==
    IF Len(template) = 0 THEN <<>>
    ELSE LET c == Head(template)
             out == IF c \in DOMAIN context THEN <<context[c]>>
                    ELSE IF c \in Placeholders THEN <<>>
                    ELSE IF \E p \in Placeholders \cup {Unclosed} : c = Raw(p)
                         THEN <<CHOOSE p \in Placeholders \cup {Unclosed} : c = Raw(p)>>
                    ELSE <<c>>
         IN  out \o render_cells(Tail(template), context)

\* A name of the context is replaced by its value's text, a name the context
\* lacks by the empty string (jinja2's default Undefined), a raw block by its
\* body; a malformed template raises.
render_template(template_str, context) ==
    IF \E i \in 1..Len(template_str) : template_str[i] = Unclosed
    THEN [raised |-> TRUE, text |-> <<>>]
    ELSE [raised |-> FALSE, text |-> render_cells(template_str, context)]

RECURSIVE Concat(_)
Concat(s) == IF Len(s) = 0 THEN "" ELSE Head(s) \o Concat(Tail(s))

\* str(amount) of a float with an integral value
float_str(amount) == ToString(amount) \o ".0"

----------------------------------------------------------------------------
(* The filesystem.                                                         *)

BASE_TEMPLATE_DIR == "/data/base"

INTERMEDIATE_TEMPLATE_DIR == "/data/intermediate"

FINAL_DOCUMENT_DIR == "/data/final"

\* os.path.join of a directory and a relative name without separators
join(a, b) == a \o "/" \o b

\* os.path.isfile
isfile(files, path) == path \in DOMAIN files

\* open(path, "w") with O_TRUNC kept: creates the file, or keeps what it holds
open_keep(files, path) == IF path \in DOMAIN files THEN files ELSE (path :> <<>>) @@ files

\* open(path, "w"): creates the file or truncates it; the handle starts at offset 0
open_w(files, path) == (path :> <<>>) @@ files

\* f.write(data) on a handle at offset 0, flushed in one write: the file's first
\* Len(data) cells are replaced, what lies beyond them stays
write_at0(files, path, data) ==
    [files EXCEPT ![path] = data \o SubSeq(@, Len(data) + 1, Len(@))]

\* os.makedirs(final_dir, exist_ok=True)
makedirs(ds, name, year) ==
    ds \cup {join(FINAL_DOCUMENT_DIR, name),
             join(join(FINAL_DOCUMENT_DIR, name), ToString(year))}

----------------------------------------------------------------------------
(* Pydantic models.                                                        *)

\* IntermediateTemplateRequest: min_items/max_items of the two lists, and the
\* validator of tenant_number
IntermediateTemplateRequest_valid(req) ==
    /\ Len(req.tenant_info) = 3
    /\ Len(req.address) = 4
    /\ validate_tenant_number(req.tenant_number)

\* DocumentRequest: month is None or ge=1, le=12; year is any int or None
DocumentRequest_valid(req) ==
    req.month = None \/ (req.month[1] >= 1 /\ req.month[1] <= 12)

----------------------------------------------------------------------------
(* The final store's naming.                                               *)

final_dir_of(name, year) == join(join(FINAL_DOCUMENT_DIR, name), ToString(year))

\* a file name that leaves the month out
final_filename_nomonth(name, year, month) == name \o "_" \o ToString(year) \o ".html"

final_filename_of(name, year, month) ==
    name \o "_" \o Format02d(month) \o "_" \o ToString(year) \o ".html"

----------------------------------------------------------------------------
(* The handlers, each as the outcome of one call on a given filesystem.    *)
(* fault names the filesystem call that fails in this call, if the call is *)
(* reached: "read", "makedirs", "open", "write"; or "none".                *)
(* An outcome holds the filesystem the call leaves, the HTTP status, what  *)
(* made the call fail (cause), the file name and path answered, the        *)
(* filesystem calls made in order (acc) and, when the final document's     *)
(* file was opened for writing, its key <<name, year, month>>.             *)

Outcome(files, ds, status, cause, file, path, acc, key) ==
    [fs |-> files, dirs |-> ds, status |-> status, cause |-> cause, file |-> file,
     path |-> path, acc |-> acc, key |-> key]

NoKey == <<>>

\* generate_intermediate_template up to the rendering: the path to write and the
\* text to write there, or the failure
intermediate_rendered(files, req, fault) ==
    LET base_template_path == join(BASE_TEMPLATE_DIR, req.base_template_name)
        context == ("{{tenant_info[0]}}" :> req.tenant_info[1])
                   @@ ("{{tenant_number}}" :> Concat(req.tenant_number))
                   @@ ("{{address[0]}}" :> req.address[1])
                   @@ ("{{amount}}" :> float_str(req.amount))
        rendered == render_template(files[base_template_path], context)
    IN  IF ~isfile(files, base_template_path)
        THEN [status |-> 404, cause |-> "notfound", acc |-> <<"isfile">>,
              path |-> "", text |-> <<>>]
        ELSE IF fault = "read"
        THEN [status |-> 500, cause |-> "read", acc |-> <<"isfile", "read">>,
              path |-> "", text |-> <<>>]
        ELSE IF rendered.raised
        THEN [status |-> 500, cause |-> "render", acc |-> <<"isfile", "read">>,
              path |-> "", text |-> <<>>]
        ELSE [status |-> 200, cause |-> "", acc |-> <<"isfile", "read">>,
              path |-> join(INTERMEDIATE_TEMPLATE_DIR, req.intermediate_template_name),
              text |-> rendered.text]

generate_intermediate_template(files, ds, req, fault) ==
    LET r == intermediate_rendered(files, req, fault)
    IN  IF r.status # 200
        THEN Outcome(files, ds, r.status, r.cause, "", "", r.acc, NoKey)
        ELSE IF fault = "open"
        THEN Outcome(files, ds, 500, "open", "", "", r.acc \o <<"open">>, NoKey)
        ELSE IF fault = "write"   \* the file was created or truncated by the open
        THEN Outcome(open_w(files, r.path), ds, 500, "write", "", "",
                     r.acc \o <<"open", "write">>, NoKey)
        ELSE Outcome(write_at0(open_w(files, r.path), r.path, r.text), ds, 200, "",
                     req.intermediate_template_name, r.path,
                     r.acc \o <<"open", "write">>, NoKey)

\* POST /generate-intermediate-template: the body is parsed into an
\* IntermediateTemplateRequest (422 when the model refuses it), then handled
post_generate_intermediate_template(files, ds, req, fault) ==
    IF ~IntermediateTemplateRequest_valid(req)
    THEN Outcome(files, ds, 422, "validation", "", "", <<>>, NoKey)
    ELSE generate_intermediate_template(files, ds, req, fault)

\* generate_document from the computation of the dates to the rendering, for
\* the year and month it resolved: the text to write, or the failure
document_rendered(files, name, year, month, pads, fault) ==
    LET days == get_first_last_day(year, month, pads)
        intermediate_template_path == join(INTERMEDIATE_TEMPLATE_DIR, name)
        context == ("{{first_day}}" :> days.first_day)
                   @@ ("{{last_day}}" :> days.last_day)
                   @@ ("{{year}}" :> ToString(year))
                   @@ ("{{month}}" :> Format02d(month))
        rendered == render_template(files[intermediate_template_path], context)
    IN  IF days.raised   \* a ValueError no handler catches: 500
        THEN [status |-> 500, cause |-> "date", acc |-> <<>>, text |-> <<>>]
        ELSE IF ~isfile(files, intermediate_template_path)
        THEN [status |-> 404, cause |-> "notfound", acc |-> <<"isfile">>, text |-> <<>>]
        ELSE IF fault = "read"
        THEN [status |-> 500, cause |-> "read", acc |-> <<"isfile", "read">>,
              text |-> <<>>]
        ELSE IF rendered.raised
        THEN [status |-> 500, cause |-> "render", acc |-> <<"isfile", "read">>,
              text |-> <<>>]
        ELSE [status |-> 200, cause |-> "", acc |-> <<"isfile", "read">>,
              text |-> rendered.text]

\* generate_document from the computation of the dates on
generate_document_from_dates(files, ds, name, year, month, pads, fault) ==
    LET r == document_rendered(files, name, year, month, pads, fault)
        final_filename == final_filename_of(name, year, month)
        final_document_path == join(final_dir_of(name, year), final_filename)
        key == <<name, year, month>>
        made == makedirs(ds, name, year)
    IN  IF r.status # 200
        THEN Outcome(files, ds, r.status, r.cause, "", "", r.acc, NoKey)
        ELSE IF fault = "makedirs"   \* an OSError no handler catches: 500
        THEN Outcome(files, ds, 500, "makedirs", "", "", r.acc \o <<"makedirs">>, NoKey)
        ELSE IF fault = "open"
        THEN Outcome(files, made, 500, "open", "", "",
                     r.acc \o <<"makedirs", "open">>, NoKey)
        ELSE IF fault = "write"   \* the file was created or truncated by the open
        THEN Outcome(open_w(files, final_document_path), made, 500, "write", "", "",
                     r.acc \o <<"makedirs", "open", "write">>, key)
        ELSE Outcome(write_at0(open_w(files, final_document_path), final_document_path,
                               r.text),
                     made, 200, "", final_filename, final_document_path,
                     r.acc \o <<"makedirs", "open", "write">>, key)

generate_document(files, ds, req, nowv, pads, fault) ==
    LET year == IF req.year # None THEN req.year[1] ELSE nowv.year
        month == IF req.month # None THEN req.month[1] ELSE nowv.month
    IN  IF month < 1 \/ month > 12
        THEN Outcome(files, ds, 400, "month", "", "", <<>>, NoKey)
        ELSE generate_document_from_dates(files, ds, req.intermediate_template_name,
                                          year, month, pads, fault)

\* POST /generate-document on a model whose month has no ge/le, the handler
\* resolving the defaults with "or" (0 counts as absent) in place of its range check
post_generate_document_or(files, ds, req, nowv, pads, fault) ==
    generate_document_from_dates(files, ds, req.intermediate_template_name,
        IF req.year = None \/ req.year = Some(0) THEN nowv.year ELSE req.year[1],
        IF req.month = None \/ req.month = Some(0) THEN nowv.month ELSE req.month[1],
        pads, fault)

\* POST /generate-document: the body is parsed into a DocumentRequest (422 when
\* the model refuses it, and the handler never runs), then handled
post_generate_document(files, ds, req, nowv, pads, fault) ==
    IF ~DocumentRequest_valid(req)
    THEN Outcome(files, ds, 422, "validation", "", "", <<>>, NoKey)
    ELSE generate_document(files, ds, req, nowv, pads, fault)

\* a lookup that does not pad the month
get_document_info_nopad(files, name, year, month) ==
    LET final_filename == name \o "_" \o ToString(month) \o "_" \o ToString(year) \o ".html"
        final_document_path == join(final_dir_of(name, year), final_filename)
    IN  IF ~isfile(files, final_document_path)
        THEN [status |-> 404, document |-> "", path |-> ""]
        ELSE [status |-> 200, document |-> final_filename, path |-> final_document_path]

\* the handler of GET /document-info
get_document_info(files, name, year, month) ==
    LET final_filename == final_filename_of(name, year, month)
        final_document_path == join(final_dir_of(name, year), final_filename)
    IN  IF ~isfile(files, final_document_path)
        THEN [status |-> 404, document |-> "", path |-> ""]
        ELSE [status |-> 200, document |-> final_filename, path |-> final_document_path]

\* the loop of generate_all_documents from `month` on; failAt is the month whose
\* generate_document call meets `fault`.  An HTTPException of generate_document
\* leaves the loop and the handler at once.  calls lists the months handed to
\* generate_document, in order, with what each call answered.
RECURSIVE all_documents_loop(_, _, _, _, _, _, _, _, _, _, _)
all_documents_loop(files, ds, name, year, month, generated_files, calls, nowv, pads, failAt, fault) ==
    IF month > 12
    THEN [fs |-> files, dirs |-> ds, status |-> 200, cause |-> "",
          files |-> generated_files, calls |-> calls]
    ELSE LET doc_request == [intermediate_template_name |-> name,
                             year |-> Some(year), month |-> Some(month)]
             result == post_generate_document(files, ds, doc_request, nowv, pads,
                           IF month = failAt THEN fault ELSE "none")
             called == Append(calls, [month |-> month, status |-> result.status,
                                      key |-> result.key, file |-> result.file,
                                      path |-> result.path])
         IN  IF result.status # 200
             THEN [fs |-> result.fs, dirs |-> result.dirs, status |-> result.status,
                   cause |-> result.cause, files |-> <<>>, calls |-> called]
             ELSE all_documents_loop(result.fs, result.dirs, name, year, month + 1,
                      Append(generated_files, result.file), called, nowv, pads, failAt, fault)

\* a loop that answers a failing month by going on to the next one
RECURSIVE all_documents_loop_skipping(_, _, _, _, _, _, _, _, _, _, _)
all_documents_loop_skipping(files, ds, name, year, month, generated_files, calls, nowv, pads, failAt, fault) ==
    IF month > 12
    THEN [fs |-> files, dirs |-> ds,
          status |-> IF Len(generated_files) = 12 THEN 200 ELSE 500,
          cause |-> IF Len(generated_files) = 12 THEN "" ELSE "skipped",
          files |-> generated_files, calls |-> calls]
    ELSE LET doc_request == [intermediate_template_name |-> name,
                             year |-> Some(year), month |-> Some(month)]
             result == post_generate_document(files, ds, doc_request, nowv, pads,
                           IF month = failAt THEN fault ELSE "none")
             called == Append(calls, [month |-> month, status |-> result.status,
                                      key |-> result.key, file |-> result.file,
                                      path |-> result.path])
         IN  all_documents_loop_skipping(result.fs, result.dirs, name, year, month + 1,
                 IF result.status = 200 THEN Append(generated_files, result.file)
                 ELSE generated_files,
                 called, nowv, pads, failAt, fault)

generate_all_documents_skipping(files, ds, req, nowv, pads, failAt, fault) ==
    all_documents_loop_skipping(files, ds, req.intermediate_template_name,
        IF req.year # None THEN req.year[1] ELSE nowv.year, 1, <<>>, <<>>,
        nowv, pads, failAt, fault)

generate_all_documents(files, ds, req, nowv, pads, failAt, fault) ==
    all_documents_loop(files, ds, req.intermediate_template_name,
        IF req.year # None THEN req.year[1] ELSE nowv.year, 1, <<>>, <<>>,
        nowv, pads, failAt, fault)

----------------------------------------------------------------------------
(* Values the three specifications start from when a part is not in use.   *)

Idle == [endpoint |-> "none"]

DateIdle == [done |-> FALSE, raised |-> FALSE, first_day |-> "", last_day |-> ""]

ReceiptTemplate ==
    <<"Rent ", "{{tenant_number}}", " ", "{{amount}}", " ",
      Raw("{{first_day}}"), "-", Raw("{{last_day}}")>>

\* startup: the three roots exist (os.makedirs(directory, exist_ok=True)); the
\* base templates are put under /data/base from outside
StartFiles ==
    (join(BASE_TEMPLATE_DIR, "receipt") :> ReceiptTemplate)
    @@ (join(BASE_TEMPLATE_DIR, "note") :> <<"Paid ", Raw("{{month}}")>>)
    @@ (join(BASE_TEMPLATE_DIR, "broken") :> <<"Rent ", Unclosed>>)
    @@ (join(BASE_TEMPLATE_DIR, "trap") :> <<Raw(Unclosed)>>)

StartDirs == {BASE_TEMPLATE_DIR, INTERMEDIATE_TEMPLATE_DIR, FINAL_DOCUMENT_DIR}

----------------------------------------------------------------------------
(* SpecTN: validate_tenant_number on every string of a small alphabet.     *)

TNChars == {"0", "1", "2", "3", "/", "SUP2"}

InitTN ==
    /\ \/ tn = <<>>
       \/ \E c \in TNChars, n \in 0..(MaxTNLen - 1) :
             \E rest \in [1..n -> TNChars] : tn = <<c>> \o rest
    /\ tnOut = "pending"
    /\ dIn = <<0, 0>> /\ dOut = DateIdle /\ padsYear = TRUE
    /\ now = [year |-> 2025, month |-> 12]
    /\ fs = StartFiles /\ dirs = StartDirs /\ resp = Idle /\ nreq = 0
    /\ opened = {} /\ gen = <<>> /\ wr = <<>> /\ tick = 0

Validate ==
    /\ tnOut = "pending"
    /\ tnOut' = IF validate_tenant_number(tn) THEN "accepted" ELSE "rejected"
    /\ UNCHANGED <<tn, dIn, dOut, padsYear, now, fs, dirs, resp, nreq, opened, gen, wr, tick>>

NextTN == Validate

SpecTN == InitTN /\ [][NextTN]_vars

----------------------------------------------------------------------------
(* SpecDate: get_first_last_day on years around the limits of datetime.    *)

DateYears == {0, 1, 999, 1900, 2000, 2023, 2024, 2100, 9999, 10000}

InitDate ==
    /\ dIn \in DateYears \X (1..12)
    /\ dOut = DateIdle
    /\ padsYear \in BOOLEAN
    /\ tn = <<>> /\ tnOut = "idle"
    /\ now = [year |-> 2025, month |-> 12]
    /\ fs = StartFiles /\ dirs = StartDirs /\ resp = Idle /\ nreq = 0
    /\ opened = {} /\ gen = <<>> /\ wr = <<>> /\ tick = 0

FirstLastDay ==
    /\ ~dOut.done
    /\ dOut' = [done |-> TRUE] @@ get_first_last_day(dIn[1], dIn[2], padsYear)
    /\ UNCHANGED <<tn, tnOut, dIn, padsYear, now, fs, dirs, resp, nreq, opened, gen, wr, tick>>

NextDate == FirstLastDay

SpecDate == InitDate /\ [][NextDate]_vars

----------------------------------------------------------------------------
(* SpecDoc: the endpoints on the shared filesystem, one request at a time, *)
(* each filesystem call of a request free to fail.                         *)

GoodTN == <<"0", "3", "/", "2", "0", "2", "4">>

BadTN == <<"1", "3", "/", "2", "0", "2", "4">>

IReq(base, tenant_info, tenant_number, name) ==
    [base_template_name |-> base, tenant_info |-> tenant_info,
     tenant_number |-> tenant_number, address |-> <<"1 Main St", "Flat 2", "Town", "County">>,
     amount |-> 5, intermediate_template_name |-> name]

IntermediateRequests ==
    {IReq("receipt", <<"Ann", "Lee", "T1">>, GoodTN, "a"),
     IReq("receipt", <<"Ann", "Lee", "T1">>, BadTN, "a"),
     IReq("receipt", <<"Ann", "Lee">>, GoodTN, "a"),
     IReq("missing", <<"Ann", "Lee", "T1">>, GoodTN, "a"),
     IReq("broken", <<"Ann", "Lee", "T1">>, GoodTN, "a"),
     IReq("trap", <<"Ann", "Lee", "T1">>, GoodTN, "b")}

Names == {"a", "b"}

YearInputs == {None, Some(0), Some(2024)}

MonthInputs == {None, Some(0), Some(2), Some(13)}

DocumentRequests ==
    [intermediate_template_name : Names, year : YearInputs, month : MonthInputs]

AllDocumentsRequests == [intermediate_template_name : Names, year : YearInputs]

IntermediateFaults == {"none", "read", "open", "write"}

DocumentFaults == {"none", "read", "makedirs", "open", "write"}

\* the month of a bulk generation whose call meets the fault (0: none)
FailMonths == {0, 1, 7, 12}

InfoYears == {0, 2024, 2025}

InfoMonths == {0, 2, 12, 13}

\* the intermediate store a restart finds: empty, or holding the template "a"
\* that an earlier run rendered
StartFilesDoc ==
    {StartFiles,
     generate_intermediate_template(StartFiles, StartDirs,
         IReq("receipt", <<"Ann", "Lee", "T1">>, GoodTN, "a"), "none").fs}

InitDoc ==
    /\ fs \in StartFilesDoc
    /\ dirs = StartDirs
    /\ now = [year |-> 2025, month |-> 12]
    /\ padsYear = TRUE
    /\ resp = Idle
    /\ nreq = 0
    /\ opened = {}
    /\ gen = <<>>
    /\ tn = <<>> /\ tnOut = "idle" /\ dIn = <<0, 0>> /\ dOut = DateIdle
    /\ wr = <<>> /\ tick = 0

Unused == <<tn, tnOut, dIn, dOut, padsYear, now, wr, tick>>

PostGenerateIntermediateTemplate(req, fault) ==
    /\ nreq < MaxReq
    /\ \E r \in {post_generate_intermediate_template(fs, dirs, req, fault)} :
        /\ nreq' = nreq + 1
        /\ fs' = r.fs
        /\ resp' = [endpoint |-> "generate-intermediate-template", req |-> req,
                    status |-> r.status, cause |-> r.cause, file |-> r.file,
                    path |-> r.path, acc |-> r.acc]
        /\ UNCHANGED <<dirs, opened, gen>>
        /\ UNCHANGED Unused

PostGenerateDocument(req, fault) ==
    /\ nreq < MaxReq
    /\ \E r \in {post_generate_document(fs, dirs, req, now, padsYear, fault)} :
        /\ nreq' = nreq + 1
        /\ fs' = r.fs
        /\ dirs' = r.dirs
        /\ opened' = IF r.key # NoKey THEN opened \cup {r.key} ELSE opened
        /\ gen' = IF r.status = 200
                  THEN (r.key :> [file |-> r.file, path |-> r.path]) @@ gen
                  ELSE gen
        /\ resp' = [endpoint |-> "generate-document", req |-> req,
                    status |-> r.status, cause |-> r.cause, file |-> r.file,
                    path |-> r.path, acc |-> r.acc]
        /\ UNCHANGED Unused

PostGenerateAllDocuments(req, failAt, fault) ==
    /\ nreq < MaxReq
    /\ \E r \in {generate_all_documents(fs, dirs, req, now, padsYear, failAt, fault)} :
      \E ok \in {{i \in 1..Len(r.calls) : r.calls[i].status = 200}} :
      \E okKeys \in {{r.calls[i].key : i \in ok}} :
        /\ nreq' = nreq + 1
        /\ fs' = r.fs
        /\ dirs' = r.dirs
        /\ opened' = opened \cup ({r.calls[i].key : i \in 1..Len(r.calls)} \ {NoKey})
        /\ gen' = [k \in DOMAIN gen \cup okKeys |->
                      IF k \in okKeys
                      THEN LET i == CHOOSE j \in ok : r.calls[j].key = k
                           IN  [file |-> r.calls[i].file, path |-> r.calls[i].path]
                      ELSE gen[k]]
        /\ resp' = [endpoint |-> "generate-all-documents", req |-> req,
                    status |-> r.status, cause |-> r.cause, files |-> r.files,
                    calls |-> r.calls]
        /\ UNCHANGED Unused

\* GET /document-info: year and month are required; month has ge=1, le=12
GetDocumentInfo(name, year, month) ==
    /\ nreq < MaxReq
    /\ \E r \in {IF month < 1 \/ month > 12
               THEN [status |-> 422, document |-> "", path |-> ""]
               ELSE get_document_info(fs, name, year, month)} :
        /\ nreq' = nreq + 1
        /\ resp' = [endpoint |-> "document-info",
                    req |-> [intermediate_template_name |-> name, year |-> year,
                             month |-> month],
                    status |-> r.status, document |-> r.document, path |-> r.path]
        /\ UNCHANGED <<fs, dirs, opened, gen>>
        /\ UNCHANGED Unused

NextDoc ==
    \/ \E req \in IntermediateRequests, fault \in IntermediateFaults :
          PostGenerateIntermediateTemplate(req, fault)
    \/ \E req \in DocumentRequests, fault \in DocumentFaults :
          PostGenerateDocument(req, fault)
    \/ \E req \in AllDocumentsRequests, failAt \in FailMonths, fault \in DocumentFaults :
          PostGenerateAllDocuments(req, failAt, fault)
    \/ \E name \in Names, year \in InfoYears, month \in InfoMonths :
          GetDocumentInfo(name, year, month)

SpecDoc == InitDoc /\ [][NextDoc]_vars

----------------------------------------------------------------------------
(* SpecRace: two workers of the server's thread pool, each handling one    *)
(* request after the other, a request taking one step per filesystem call: *)
(* Begin (the checks, the read of the template and the rendering), Open    *)
(* (open(path, "w"): create or truncate) and Write (the one write that     *)
(* flushes the content at the handle's offset 0, then close and answer).   *)

Workers == {1, 2}

RaceIntermediateRequests ==
    {IReq("receipt", <<"Ann", "Lee", "T1">>, GoodTN, "a"),
     IReq("note", <<"Ann", "Lee", "T1">>, GoodTN, "a")}

RaceDocumentRequests ==
    {[intermediate_template_name |-> "a", year |-> Some(2024), month |-> Some(2)]}

NoWriter ==
    [pc |-> "idle", kind |-> "", name |-> "", year |-> 0, path |-> "",
     content |-> <<>>, tBegin |-> 0,
     tOpen |-> 0, tWrite |-> 0, n |-> 0, status |-> 0]

InitRace ==
    /\ fs = StartFiles
    /\ dirs = StartDirs
    /\ wr = [w \in Workers |-> NoWriter]
    /\ tick = 0
    /\ now = [year |-> 2025, month |-> 12]
    /\ padsYear = TRUE
    /\ resp = Idle /\ nreq = 0 /\ opened = {} /\ gen = <<>>
    /\ tn = <<>> /\ tnOut = "idle" /\ dIn = <<0, 0>> /\ dOut = DateIdle

RaceUnused == <<tn, tnOut, dIn, dOut, padsYear, now, resp, nreq, opened, gen>>

\* generate_intermediate_template up to the rendering (lines 100-121)
BeginIntermediate(w, req) ==
    /\ wr[w].pc = "idle"
    /\ wr[w].n < MaxRaceReq
    /\ IntermediateTemplateRequest_valid(req)
    /\ \E r \in {intermediate_rendered(fs, req, "none")} :
          wr' = [wr EXCEPT ![w] =
                    [pc |-> IF r.status = 200 THEN "rendered" ELSE "idle",
                     kind |-> "intermediate", name |-> req.intermediate_template_name,
                     year |-> 0, path |-> r.path, content |-> r.text,
                     tBegin |-> tick + 1, tOpen |-> 0, tWrite |-> 0,
                     n |-> @.n + 1, status |-> r.status]]
    /\ tick' = tick + 1
    /\ UNCHANGED <<fs, dirs>>
    /\ UNCHANGED RaceUnused

\* generate_document up to the rendering (lines 141-172), and the path it
\* builds for the document (lines 175-178)
BeginDocument(w, req) ==
    /\ wr[w].pc = "idle"
    /\ wr[w].n < MaxRaceReq
    /\ DocumentRequest_valid(req)
    /\ req.year # None /\ req.month # None
    /\ \E r \in {document_rendered(fs, req.intermediate_template_name, req.year[1],
                                   req.month[1], padsYear, "none")} :
          wr' = [wr EXCEPT ![w] =
                    [pc |-> IF r.status = 200 THEN "rendered" ELSE "idle",
                     kind |-> "document", name |-> req.intermediate_template_name,
                     year |-> req.year[1],
                     path |-> join(final_dir_of(req.intermediate_template_name, req.year[1]),
                                   final_filename_of(req.intermediate_template_name,
                                                     req.year[1], req.month[1])),
                     content |-> r.text,
                     tBegin |-> tick + 1, tOpen |-> 0, tWrite |-> 0,
                     n |-> @.n + 1, status |-> r.status]]
    /\ tick' = tick + 1
    /\ UNCHANGED <<fs, dirs>>
    /\ UNCHANGED RaceUnused

\* os.makedirs of the final directory (documents only), then open(path, "w")
Open(w) ==
    /\ wr[w].pc = "rendered"
    /\ fs' = open_w(fs, wr[w].path)
    /\ dirs' = IF wr[w].kind = "document" THEN makedirs(dirs, wr[w].name, wr[w].year) ELSE dirs
    /\ wr' = [wr EXCEPT ![w].pc = "open", ![w].tOpen = tick + 1]
    /\ tick' = tick + 1
    /\ UNCHANGED RaceUnused

\* f.write(content), the flush of the close, and the answer
Write(w) ==
    /\ wr[w].pc = "open"
    /\ fs' = write_at0(fs, wr[w].path, wr[w].content)
    /\ wr' = [wr EXCEPT ![w].pc = "idle", ![w].tWrite = tick + 1]
    /\ tick' = tick + 1
    /\ UNCHANGED dirs
    /\ UNCHANGED RaceUnused

NextRace ==
    \/ \E w \in Workers, req \in RaceIntermediateRequests : BeginIntermediate(w, req)
    \/ \E w \in Workers, req \in RaceDocumentRequests : BeginDocument(w, req)
    \/ \E w \in Workers : Open(w)
    \/ \E w \in Workers : Write(w)

SpecRace == InitRace /\ [][NextRace]_vars

----------------------------------------------------------------------------
(* The properties checked, each under the specification named with it.     *)

\* The statement's reading of a tenant number: MM/YYYY in ASCII decimal digits.
WellFormedTenantNumber(v) ==
    /\ Len(v) = 7
    /\ v[3] = "/"
    /\ \A i \in {1, 2, 4, 5, 6, 7} : v[i] \in AsciiDigits
    /\ 10 * DigitValue(v[1]) + DigitValue(v[2]) \in 1..12

\* C1 (SpecTN): validate_tenant_number accepts a string if and only if it is 7
\* characters MM/YYYY with "/" at index 2, a decimal digit at every other
\* position and a month in 01..12; every deviation is rejected.
C1_AcceptsExactlyMMYYYY ==
    tnOut \in {"accepted", "rejected"} =>
        (tnOut = "accepted" <=> WellFormedTenantNumber(tn))

\* the month a generate-document request resolves to
ResolvedMonth(req) == IF req.month = None THEN now.month ELSE req.month[1]

ResolvedYear(req) == IF req.year = None THEN now.year ELSE req.year[1]

MonthOutOfRange(req) == req.month # None /\ req.month[1] \notin 1..12

\* C2 (SpecDoc): a generate-document request whose month is outside 1..12 is
\* rejected before any file access: no filesystem call is made, and no file or
\* directory is created or changed.
C2_BadMonthRejectedBeforeFileAccess ==
    [][(/\ nreq' = nreq + 1
        /\ resp'.endpoint = "generate-document"
        /\ MonthOutOfRange(resp'.req))
       => (/\ resp'.status \in {400, 422}
           /\ resp'.acc = <<>>
           /\ fs' = fs
           /\ dirs' = dirs)]_vars

\* C2's case: month 13 asked of a template that is there to be read
C2_Witness ==
    /\ resp.endpoint = "generate-document"
    /\ resp.req.month = Some(13)
    /\ resp.status \in {400, 422}
    /\ isfile(fs, join(INTERMEDIATE_TEMPLATE_DIR, resp.req.intermediate_template_name))

\* C3 (SpecDoc): a generate-document request with an explicit month outside
\* 1..12 is answered 400 by generate_document's own range check, not the 422
\* of a request the model refuses.
C3_BadMonthAnswered400 ==
    (resp.endpoint = "generate-document" /\ MonthOutOfRange(resp.req))
        => (resp.status = 400 /\ resp.cause = "month")

IOCauses == {"read", "render", "makedirs", "open", "write"}

\* the statement's name of the document of a month
ExpectedFileName(name, year, month) ==
    name \o "_" \o (IF month < 10 THEN "0" ELSE "") \o ToString(month) \o "_"
         \o ToString(year) \o ".html"

\* the statement's path of a key
ExpectedPath(name, year, month) ==
    FINAL_DOCUMENT_DIR \o "/" \o name \o "/" \o ToString(year) \o "/"
        \o ExpectedFileName(name, year, month)

\* C4 (SpecDoc): when the intermediate template exists and no I/O fails,
\* generate_all_documents(template, year) calls generate_document for months
\* 1..12 in ascending order and returns the 12 names <template>_01_<year>.html
\* to <template>_12_<year>.html in that order; afterwards get_document_info
\* succeeds for every month.
C4_BulkGeneratesTwelve ==
    [][(/\ nreq' = nreq + 1
        /\ resp'.endpoint = "generate-all-documents"
        /\ isfile(fs, join(INTERMEDIATE_TEMPLATE_DIR, resp'.req.intermediate_template_name))
        /\ resp'.cause \notin IOCauses)
       => (/\ resp'.status = 200
           /\ Len(resp'.calls) = 12
           /\ \A m \in 1..12 : resp'.calls[m].month = m
           /\ resp'.files = [m \in 1..12 |->
                 ExpectedFileName(resp'.req.intermediate_template_name,
                                  ResolvedYear(resp'.req), m)]
           /\ \A m \in 1..12 :
                 get_document_info(fs', resp'.req.intermediate_template_name,
                                   ResolvedYear(resp'.req), m).status = 200)]_vars

\* C5 (SpecDoc): generate_all_documents is fail-fast with no rollback: when
\* generate_document fails for month k the bulk call fails with that same
\* error, no later month is handed to generate_document, and the documents of
\* months 1..k-1 written by this call are still in the store.
C5_FailFastNoRollback ==
    (resp.endpoint = "generate-all-documents" /\ resp.status # 200) =>
        LET k == Len(resp.calls)
        IN  /\ k \in 1..12
            /\ \A i \in 1..k : resp.calls[i].month = i
            /\ \A i \in 1..(k - 1) : resp.calls[i].status = 200
            /\ resp.calls[k].status # 200
            /\ resp.status = resp.calls[k].status
            /\ resp.files = <<>>
            /\ \A i \in 1..(k - 1) :
                  /\ resp.calls[i].path =
                        ExpectedPath(resp.req.intermediate_template_name,
                                     ResolvedYear(resp.req), i)
                  /\ isfile(fs, resp.calls[i].path)

\* C5's case: the call of month 7 failed after six documents were written
C5_Witness ==
    /\ resp.endpoint = "generate-all-documents"
    /\ resp.status = 500
    /\ Len(resp.calls) = 7
    /\ \A i \in 1..6 : isfile(fs, resp.calls[i].path)

BaseNames == {"receipt", "note", "broken", "trap"}

\* the files of the final store
FinalFiles ==
    DOMAIN fs \ ({join(BASE_TEMPLATE_DIR, b) : b \in BaseNames}
                 \cup {join(INTERMEDIATE_TEMPLATE_DIR, n) : n \in Names})

KeyPath(k) == ExpectedPath(k[1], k[2], k[3])

InfoKey(r) == <<r.req.intermediate_template_name, r.req.year, r.req.month>>

C8_MissingTemplateIs404 ==
    [][(/\ nreq' = nreq + 1
        /\ resp'.endpoint = "generate-document"
        /\ ResolvedMonth(resp'.req) \in 1..12
        /\ ~isfile(fs, join(INTERMEDIATE_TEMPLATE_DIR,
                            resp'.req.intermediate_template_name)))
       => (/\ resp'.status = 404
           /\ fs' = fs
           /\ dirs' = dirs)]_vars

\* the statement's last day of a month
ExpectedLastDay(year, month) ==
    IF month \in {4, 6, 9, 11} THEN 30
    ELSE IF month # 2 THEN 31
    ELSE IF (year % 4 = 0 /\ year % 100 # 0) \/ year % 400 = 0 THEN 29
    ELSE 28

TwoDigits(n) == IF n < 10 THEN "0" \o ToString(n) ELSE ToString(n)

FourDigits(n) ==
    IF n < 10 THEN "000" \o ToString(n)
    ELSE IF n < 100 THEN "00" \o ToString(n)
    ELSE IF n < 1000 THEN "0" \o ToString(n)
    ELSE ToString(n)

DDMMYYYY(year, month, day) ==
    TwoDigits(day) \o "/" \o TwoDigits(month) \o "/" \o FourDigits(year)

\* C9 (SpecDate): for every year and every month in 1..12, get_first_last_day
\* returns day 01 and the last calendar day of the month (31, 30, 28, or 29 in
\* a Gregorian leap year), both formatted DD/MM/YYYY.
C9_FirstAndLastDay ==
    dOut.done =>
        /\ ~dOut.raised
        /\ dOut.first_day = DDMMYYYY(dIn[1], dIn[2], 1)
        /\ dOut.last_day = DDMMYYYY(dIn[1], dIn[2], ExpectedLastDay(dIn[1], dIn[2]))

\* both workers have answered 200 and their last requests wrote the same path
BothWrote ==
    /\ \A w \in Workers : wr[w].pc = "idle" /\ wr[w].tWrite > 0 /\ wr[w].status = 200
    /\ wr[1].path = wr[2].path

\* the two requests overlapped in time
Concurrent == wr[1].tBegin < wr[2].tWrite /\ wr[2].tBegin < wr[1].tWrite

LastWriter == IF wr[1].tWrite > wr[2].tWrite THEN 1 ELSE 2

OtherWriter == 3 - LastWriter

\* C10 as stated (SpecRace): when two requests run concurrently and write the
\* same path, then once both have completed the file holds exactly the complete
\* rendered content of the request that wrote last, never a mixture of both.
C10_LastWriterWins ==
    (BothWrote /\ Concurrent) => fs[wr[1].path] = wr[LastWriter].content

\* what the other request's write left in the file when the last write began:
\* its content, unless the last writer's open truncated it away
Residue ==
    IF wr[OtherWriter].tWrite > wr[LastWriter].tOpen
    THEN wr[OtherWriter].content
    ELSE <<>>

\* C10 as amended (SpecRace): once both have completed, the file begins with
\* the complete rendered content of the request that wrote last and is never
\* shorter than it; it is exactly that content unless the other request wrote
\* after the last writer's open and its content is the longer one, and then
\* the tail of the other request's content follows it (a mixture of both).
C10_LastWriterOverlays ==
    BothWrote =>
        LET last == wr[LastWriter].content
            file == fs[wr[1].path]
        IN  /\ Len(file) >= Len(last)
            /\ SubSeq(file, 1, Len(last)) = last
            /\ file = last \o SubSeq(Residue, Len(last) + 1, Len(Residue))
            /\ (Len(Residue) <= Len(last)) => file = last

\* C10's case: two overlapping requests have completed and the file is neither
\* request's content
C10_Witness ==
    /\ BothWrote
    /\ Concurrent
    /\ fs[wr[1].path] # wr[1].content
    /\ fs[wr[1].path] # wr[2].content

====
